---- MODULE Spec2Model ----
(***************************************************************************)
(* Model of vsg::PolytopeIntersector and the file-local TriangleIntersector *)
(* of src/vsg/utils/PolytopeIntersector.cpp.                                *)
(*                                                                          *)
(* double values are modelled as exact rationals <<n, d>> (d > 0, reduced); *)
(* the inputs are chosen so that every value the code computes is rational  *)
(* (segment lengths are integers).                                          *)
(***************************************************************************)
EXTENDS Integers, Sequences, FiniteSets, TLC

VARIABLES
    polytopeStack,    \* _polytopeStack
    l2wStack,         \* localToWorldStack()
    w2lStack,         \* worldToLocalStack()
    intersections,    \* the list of Intersection records
    nodePath,         \* _nodePath; no operation of this file changes it
    arrayStateStack,  \* arrayStateStack; seeded by the constructor
    ctor,             \* the constructor call and the values it computed
    ub,               \* TRUE once a call had undefined behaviour
    last              \* the last call: its name, arguments and return value

vars == <<polytopeStack, l2wStack, w2lStack, intersections, nodePath,
          arrayStateStack, ctor, ub, last>>

(***************************************************************************)
(* Bounds of the model.                                                     *)
(***************************************************************************)
MaxDepth == 2
MaxHits == 2

(***************************************************************************)
(* Exact rational arithmetic standing for double arithmetic.                *)
(***************************************************************************)
Abs(x) == IF x < 0 THEN -x ELSE x

RECURSIVE GCD(_, _)
GCD(a, b) == IF b = 0 THEN a ELSE GCD(b, a % b)

Rat(n, d) ==
    LET g == GCD(Abs(n), Abs(d))
        s == IF d < 0 THEN -1 ELSE 1
    IN  <<(s * n) \div g, (s * d) \div g>>

R(n) == <<n, 1>>
RZero == R(0)
ROne == R(1)
RAdd(a, b) == Rat(a[1] * b[2] + b[1] * a[2], a[2] * b[2])
RSub(a, b) == Rat(a[1] * b[2] - b[1] * a[2], a[2] * b[2])
RMul(a, b) == Rat(a[1] * b[1], a[2] * b[2])
RDiv(a, b) == Rat(a[1] * b[2], a[2] * b[1])
RNeg(a) == <<-a[1], a[2]>>
RLt(a, b) == a[1] * b[2] < b[1] * a[2]
RGt(a, b) == RLt(b, a)

(***************************************************************************)
(* t_vec3: dot, cross, length of vectors <<x, y, z>> of rationals.          *)
(***************************************************************************)
V3(x, y, z) == <<R(x), R(y), R(z)>>
VSub(a, b) == <<RSub(a[1], b[1]), RSub(a[2], b[2]), RSub(a[3], b[3])>>
VAdd(a, b) == <<RAdd(a[1], b[1]), RAdd(a[2], b[2]), RAdd(a[3], b[3])>>
VScale(a, s) == <<RMul(a[1], s), RMul(a[2], s), RMul(a[3], s)>>
dot(a, b) == RAdd(RAdd(RMul(a[1], b[1]), RMul(a[2], b[2])), RMul(a[3], b[3]))
cross(a, b) ==
    << RSub(RMul(a[2], b[3]), RMul(a[3], b[2])),
       RSub(RMul(a[3], b[1]), RMul(a[1], b[3])),
       RSub(RMul(a[1], b[2]), RMul(a[2], b[1])) >>
length2(a) == dot(a, a)

\* sqrt on the perfect squares the inputs produce
MaxRoot == 16
ISqrt(n) == CHOOSE k \in 0..MaxRoot : k * k = n
length(a) == LET l2 == length2(a) IN Rat(ISqrt(l2[1]), ISqrt(l2[2]))

(***************************************************************************)
(* dmat4 as M[row][column] of rationals; dmat4{} is the identity.           *)
(***************************************************************************)
Mat(rows) ==
    LET row(r) == <<R(rows[r][1]), R(rows[r][2]), R(rows[r][3]), R(rows[r][4])>>
    IN  <<row(1), row(2), row(3), row(4)>>
Identity == Mat(<< <<1, 0, 0, 0>>, <<0, 1, 0, 0>>, <<0, 0, 1, 0>>, <<0, 0, 0, 1>> >>)

Dot4(a, b) ==
    RAdd(RAdd(RMul(a[1], b[1]), RMul(a[2], b[2])), RAdd(RMul(a[3], b[3]), RMul(a[4], b[4])))
Col(M, c) == <<M[1][c], M[2][c], M[3][c], M[4][c]>>
MatMul(A, B) ==
    LET row(r) == <<Dot4(A[r], Col(B, 1)), Dot4(A[r], Col(B, 2)),
                    Dot4(A[r], Col(B, 3)), Dot4(A[r], Col(B, 4))>>
    IN  <<row(1), row(2), row(3), row(4)>>

Others(i) == CASE i = 1 -> <<2, 3, 4>> [] i = 2 -> <<1, 3, 4>>
               [] i = 3 -> <<1, 2, 4>> [] i = 4 -> <<1, 2, 3>>
Det3(M, rs, cs) ==
    LET e(i, j) == M[rs[i]][cs[j]]
    IN  RAdd(RSub(RMul(e(1, 1), RSub(RMul(e(2, 2), e(3, 3)), RMul(e(2, 3), e(3, 2)))),
                  RMul(e(1, 2), RSub(RMul(e(2, 1), e(3, 3)), RMul(e(2, 3), e(3, 1))))),
             RMul(e(1, 3), RSub(RMul(e(2, 1), e(3, 2)), RMul(e(2, 2), e(3, 1)))))
Cofactor(M, r, c) ==
    LET m == Det3(M, Others(r), Others(c))
    IN  IF (r + c) % 2 = 0 THEN m ELSE RNeg(m)
Det4(M) ==
    Dot4(M[1], <<Cofactor(M, 1, 1), Cofactor(M, 1, 2), Cofactor(M, 1, 3), Cofactor(M, 1, 4)>>)
inverse(M) ==
    LET d == Det4(M)
        row(r) == <<RDiv(Cofactor(M, 1, r), d), RDiv(Cofactor(M, 2, r), d),
                    RDiv(Cofactor(M, 3, r), d), RDiv(Cofactor(M, 4, r), d)>>
    IN  <<row(1), row(2), row(3), row(4)>>

\* dmat4 * dvec3: the point (x, y, z, 1) transformed, divided by w
MatTimesVec3(M, v) ==
    LET h == <<v[1], v[2], v[3], ROne>>
        w == Dot4(M[4], h)
    IN  <<RDiv(Dot4(M[1], h), w), RDiv(Dot4(M[2], h), w), RDiv(Dot4(M[3], h), w)>>

(***************************************************************************)
(* dplane <<a, b, c, d>> and Polytope (sequence of planes).                 *)
(***************************************************************************)
dplane(a, b, c, d) == <<a, b, c, d>>
\* pl * matrix: the coefficient row vector right-multiplied by the matrix
PlaneTimesMat(pl, M) ==
    <<Dot4(pl, Col(M, 1)), Dot4(pl, Col(M, 2)), Dot4(pl, Col(M, 3)), Dot4(pl, Col(M, 4))>>
PolytopeTimesMat(poly, M) == [k \in 1..Len(poly) |-> PlaneTimesMat(poly[k], M)]

(***************************************************************************)
(* TriangleIntersector<double>: constructor and intersect(i0, i1, i2).      *)
(***************************************************************************)
\* epsilon = 1e-10 = 1 / (EpsilonRoot * EpsilonRoot)
EpsilonRoot == 100000
GtEpsilon(x) == x[1] > 0 /\ x[1] * EpsilonRoot > x[2] \div EpsilonRoot
LtNegEpsilon(x) == GtEpsilon(RNeg(x))

TriangleIntersector(start, end) ==
    LET d0 == VSub(end, start)
        len == length(d0)
        inv == IF len # RZero THEN RDiv(ROne, len) ELSE RZero
    IN  [start |-> start, end |-> end, instanceIndex |-> 0,
         _d |-> VScale(d0, inv), _length |-> len, _inverse_length |-> inv]

\* TriResolve with the call of add made before the test of t
TriResolve_addFirst(ti, t, call) ==
    IF RLt(t, RZero) \/ RGt(t, ti._length)
    THEN [ret |-> FALSE, calls |-> <<call>>]
    ELSE [ret |-> TRUE, calls |-> <<call>>]

\* from the test of t to the return: the call of add is the last step
TriResolve(ti, t, call) ==
    IF RLt(t, RZero) \/ RGt(t, ti._length)
    THEN [ret |-> FALSE, calls |-> <<>>]
    ELSE [ret |-> TRUE, calls |-> <<call>>]

\* vertices is indexed from 0 in the code, from 1 here.  The result is the
\* return value, the calls of intersector.add made, and the locals
\* <<det, u, v, dot(Q, E2), _length>> as computed from the arguments.
intersect(ti, vertices, i0, i1, i2) ==
    LET v0 == vertices[i0 + 1]
        v1 == vertices[i1 + 1]
        v2 == vertices[i2 + 1]
        T == VSub(ti.start, v0)
        E2 == VSub(v2, v0)
        E1 == VSub(v1, v0)
        P == cross(ti._d, E2)
        det == dot(P, E1)
        u0 == dot(P, T)
        Q == cross(T, E1)
        v0_ == dot(Q, ti._d)
        inv_det == RDiv(ROne, det)
        t == RMul(dot(Q, E2), inv_det)
        u == RMul(u0, inv_det)
        v == RMul(v0_, inv_det)
        r0 == RSub(RSub(ROne, u), v)
        r1 == u
        r2 == v
        r == RMul(t, ti._inverse_length)
        call == [coord |-> VAdd(VAdd(VScale(v0, r0), VScale(v1, r1)), VScale(v2, r2)),
                 ratio |-> r,
                 indexRatios |-> << <<i0, r0>>, <<i1, r1>>, <<i2, r2>> >>,
                 instanceIndex |-> ti.instanceIndex]
        reject == [ret |-> FALSE, calls |-> <<>>]
        res == IF GtEpsilon(det) THEN
                   IF RLt(u0, RZero) \/ RGt(u0, det) THEN reject
                   ELSE IF RLt(v0_, RZero) \/ RGt(v0_, det) THEN reject
                   ELSE IF RGt(RAdd(u0, v0_), det) THEN reject
                   ELSE TriResolve(ti, t, call)
               ELSE IF LtNegEpsilon(det) THEN
                   IF RGt(u0, RZero) \/ RLt(u0, det) THEN reject
                   ELSE IF RGt(v0_, RZero) \/ RLt(v0_, det) THEN reject
                   ELSE IF RLt(RAdd(u0, v0_), det) THEN reject
                   ELSE TriResolve(ti, t, call)
               ELSE reject
    IN  [ret |-> res.ret, calls |-> res.calls,
         obs |-> <<det, u0, v0_, dot(Q, E2), ti._length>>]

(***************************************************************************)
(* Inputs: the values the calls are made with.                              *)
(***************************************************************************)
TRIANGLE_LIST == "VK_PRIMITIVE_TOPOLOGY_TRIANGLE_LIST"
LINE_LIST == "VK_PRIMITIVE_TOPOLOGY_LINE_LIST"
Topologies == {TRIANGLE_LIST, LINE_LIST}

\* x >= -1, x <= 1, y >= -2 and the single half-space z >= 0
BoxPolytope ==
    << dplane(R(1), R(0), R(0), R(1)), dplane(R(-1), R(0), R(0), R(1)),
       dplane(R(0), R(1), R(0), R(2)) >>
HalfSpace == << dplane(R(0), R(0), R(1), R(0)) >>
Polytopes == {BoxPolytope, HalfSpace}

Translate == Mat(<< <<1, 0, 0, 1>>, <<0, 1, 0, 0>>, <<0, 0, 1, 0>>, <<0, 0, 0, 1>> >>)
ScaleX == Mat(<< <<2, 0, 0, 0>>, <<0, 1, 0, 0>>, <<0, 0, 1, 0>>, <<0, 0, 0, 1>> >>)
Transforms == {Translate, ScaleX}

ProjStd == Mat(<< <<1, 0, 0, 0>>, <<0, -1, 0, 0>>, <<0, 0, -1, -1>>, <<0, 0, -1, 0>> >>)
ProjRev == Mat(<< <<1, 0, 0, 0>>, <<0, -1, 0, 0>>, <<0, 0, 1, 1>>, <<0, 0, -1, 0>> >>)
ViewBack == Mat(<< <<1, 0, 0, 0>>, <<0, 1, 0, 0>>, <<0, 0, 1, -2>>, <<0, 0, 0, 1>> >>)
Viewports ==
    { [x |-> 2, y |-> 1, width |-> 4, height |-> 2, minDepth |-> 0, maxDepth |-> 1],
      [x |-> 0, y |-> 0, width |-> 0, height |-> 0, minDepth |-> 0, maxDepth |-> 1] }
Cameras ==
    { [viewport |-> vp, projectionMatrix |-> pm, viewMatrix |-> ViewBack] :
        vp \in Viewports, pm \in {ProjStd, ProjRev} }
\* the screen rectangle as insets <<left, top, right, bottom>> from the viewport
Insets == { <<0, 0, 0, 0>>, <<1, 0, 0, 1>>, <<0, 1, 1, 0>> }
ScreenRect(vp, in) ==
    [xMin |-> vp.x + in[1], yMin |-> vp.y + in[2],
     xMax |-> vp.x + vp.width - in[3], yMax |-> vp.y + vp.height - in[4]]

Spheres ==
    { [center |-> V3(0, 0, 1), radius |-> R(1)],
      [center |-> V3(5, 0, -3), radius |-> R(1)],
      [center |-> V3(0, 0, 0), radius |-> R(-1)] }

DrawArgs ==
    { [first |-> 0, count |-> c, firstInstance |-> 1, instanceCount |-> n] :
        c \in {2, 3}, n \in {0, 1, 2} }

Vertices == << V3(0, 0, 0), V3(4, 0, 0), V3(0, 4, 0) >>
Triangles == { <<0, 1, 2>>, <<0, 2, 1>>, <<0, 1, 1>> }
Segments ==
    { <<V3(1, 1, 4), V3(1, 1, -4)>>,     \* crosses the triangle half way
      <<V3(1, 1, -1), V3(1, 1, -4)>>,    \* starts beyond the plane
      <<V3(-1, 1, 4), V3(-1, 1, -4)>>,   \* misses beside the edge v0-v2
      <<V3(1, -1, 4), V3(1, -1, -4)>>,   \* misses beside the edge v0-v1
      <<V3(3, 3, 4), V3(3, 3, -4)>>,     \* misses beyond the edge v1-v2
      <<V3(1, 1, 1), V3(1, 1, 1)>>,      \* zero length
      <<V3(0, 1, 0), V3(4, 1, 0)>>,      \* in the plane of the triangle
      <<V3(7, 1, 8), V3(4, 1, 4)>> }     \* oblique, length 5, stops short

AddArgs ==
    { [coord |-> V3(1, 1, 0), ratio |-> Rat(1, 2), indexRatios |-> <<>>,
       instanceIndex |-> n] : n \in {0, 1} }

\* what popping an empty std::vector may leave behind
UBStacks == { <<>>, <<Identity>> }

(***************************************************************************)
(* Constructors.                                                            *)
(***************************************************************************)
\* CameraNdc with the viewport origin left out
CameraNdc_noOrigin(vp, rc) ==
    [ndc_xMin |-> IF vp.width > 0
                  THEN RSub(RDiv(RMul(R(2), R(rc.xMin)), R(vp.width)), ROne)
                  ELSE R(rc.xMin),
     ndc_xMax |-> IF vp.width > 0
                  THEN RSub(RDiv(RMul(R(2), R(rc.xMax)), R(vp.width)), ROne)
                  ELSE R(rc.xMax),
     ndc_yMin |-> IF vp.height > 0
                  THEN RSub(ROne, RDiv(RMul(R(2), R(rc.yMax)), R(vp.height)))
                  ELSE R(rc.yMin),
     ndc_yMax |-> IF vp.height > 0
                  THEN RSub(ROne, RDiv(RMul(R(2), R(rc.yMin)), R(vp.height)))
                  ELSE R(rc.yMax)]

\* the NDC bounds of the camera constructor
CameraNdc(vp, rc) ==
    [ndc_xMin |-> IF vp.width > 0
                  THEN RSub(RDiv(RMul(R(2), R(rc.xMin - vp.x)), R(vp.width)), ROne)
                  ELSE R(rc.xMin),
     ndc_xMax |-> IF vp.width > 0
                  THEN RSub(RDiv(RMul(R(2), R(rc.xMax - vp.x)), R(vp.width)), ROne)
                  ELSE R(rc.xMax),
     ndc_yMin |-> IF vp.height > 0
                  THEN RSub(ROne, RDiv(RMul(R(2), R(rc.yMax - vp.y)), R(vp.height)))
                  ELSE R(rc.yMin),
     ndc_yMax |-> IF vp.height > 0
                  THEN RSub(ROne, RDiv(RMul(R(2), R(rc.yMin - vp.y)), R(vp.height)))
                  ELSE R(rc.yMax)]

CameraClipspace(camera, ndc) ==
    LET vp == camera.viewport
        reverse_depth == RGt(camera.projectionMatrix[3][3], RZero)
        sides == << dplane(R(1), R(0), R(0), RNeg(ndc.ndc_xMin)),
                    dplane(R(-1), R(0), R(0), ndc.ndc_xMax),
                    dplane(R(0), R(1), R(0), RNeg(ndc.ndc_yMin)),
                    dplane(R(0), R(-1), R(0), ndc.ndc_yMax) >>
    IN  IF reverse_depth
        THEN sides \o << dplane(R(0), R(0), R(1), R(-vp.maxDepth)),
                         dplane(R(0), R(0), R(-1), R(vp.minDepth)) >>
        ELSE sides \o << dplane(R(0), R(0), R(-1), R(vp.maxDepth)),
                         dplane(R(0), R(0), R(1), R(-vp.minDepth)) >>

CameraWorldspace(camera, ndc) ==
    LET clipspace == CameraClipspace(camera, ndc)
        eyespace == PolytopeTimesMat(clipspace, camera.projectionMatrix)
    IN  PolytopeTimesMat(eyespace, camera.viewMatrix)

NoCall == [op |-> "constructor", ret |-> FALSE, args |-> <<>>, tested |-> {}, obs |-> <<>>]

\* Inherit(initialArrayData) and the members' initial values
InitBase(topology) ==
    /\ l2wStack = <<>>
    /\ w2lStack = <<>>
    /\ intersections = <<>>
    /\ nodePath = <<>>
    /\ arrayStateStack = << [topology |-> topology, arrays |-> <<>>] >>
    /\ ub = FALSE
    /\ last = NoCall

\* PolytopeIntersector(const Polytope&, ref_ptr<ArrayState>)
InitPolytope ==
    \E in_polytope \in Polytopes, topology \in Topologies :
        /\ InitBase(topology)
        /\ polytopeStack = <<in_polytope>>
        /\ ctor = [kind |-> "polytope", worldspace |-> in_polytope]

\* PolytopeIntersector(const Camera&, xMin, yMin, xMax, yMax, ref_ptr<ArrayState>)
InitCamera ==
    \E camera \in Cameras, in \in Insets, topology \in Topologies :
        LET rc == ScreenRect(camera.viewport, in)
            ndc == CameraNdc(camera.viewport, rc)
            worldspace == CameraWorldspace(camera, ndc)
        IN  /\ InitBase(topology)
            /\ polytopeStack = <<worldspace>>
            /\ ctor = [kind |-> "camera", worldspace |-> worldspace,
                       viewport |-> camera.viewport, rect |-> rc, ndc |-> ndc]

Init == InitPolytope \/ InitCamera

(***************************************************************************)
(* Operations of PolytopeIntersector.                                       *)
(***************************************************************************)
Back(stack) == stack[Len(stack)]
PopBack(stack) == SubSeq(stack, 1, Len(stack) - 1)

\* computeTransform(_nodePath): the transforms along the path, accumulated
RECURSIVE computeTransform(_)
computeTransform(path) ==
    IF path = <<>> THEN Identity
    ELSE MatMul(computeTransform(PopBack(path)), Back(path))

\* transform.transform(mv) of a MatrixTransform
TransformOf(matrix, mv) == MatMul(mv, matrix)

\* add inserting the record at the front of the list
add_front(list, coord, ratio, indexRatios, instanceIndex) ==
    LET localToWorld == computeTransform(nodePath)
        intersection ==
            [localIntersection |-> coord,
             worldIntersection |-> MatTimesVec3(localToWorld, coord),
             ratio |-> ratio,
             localToWorld |-> localToWorld,
             nodePath |-> nodePath,
             arrays |-> Back(arrayStateStack).arrays,
             indexRatios |-> indexRatios,
             instanceIndex |-> instanceIndex]
    IN  <<intersection>> \o list

\* PolytopeIntersector::add: the list after the call
add(list, coord, ratio, indexRatios, instanceIndex) ==
    LET localToWorld == computeTransform(nodePath)
        intersection ==
            [localIntersection |-> coord,
             worldIntersection |-> MatTimesVec3(localToWorld, coord),
             ratio |-> ratio,
             localToWorld |-> localToWorld,
             nodePath |-> nodePath,
             arrays |-> Back(arrayStateStack).arrays,
             indexRatios |-> indexRatios,
             instanceIndex |-> instanceIndex]
    IN  Append(list, intersection)

Add ==
    \E a \in AddArgs :
        /\ ~ub
        /\ Len(intersections) < MaxHits
        /\ intersections' = add(intersections, a.coord, a.ratio, a.indexRatios, a.instanceIndex)
        /\ last' = [NoCall EXCEPT !.op = "add", !.args = <<a>>]
        /\ UNCHANGED <<polytopeStack, l2wStack, w2lStack, nodePath, arrayStateStack, ctor, ub>>

\* pushTransform without the push onto the world-to-local stack
pushTransform_noWorldToLocal(transform) ==
    LET localToWorld == IF l2wStack = <<>> THEN TransformOf(transform, Identity)
                        ELSE TransformOf(transform, Back(l2wStack))
        worldspace == polytopeStack[1]
        localspace == PolytopeTimesMat(worldspace, localToWorld)
    IN  /\ l2wStack' = Append(l2wStack, localToWorld)
        /\ w2lStack' = w2lStack
        /\ polytopeStack' = Append(polytopeStack, localspace)
        /\ last' = [NoCall EXCEPT !.op = "pushTransform", !.args = <<transform>>]
        /\ UNCHANGED <<intersections, nodePath, arrayStateStack, ctor, ub>>

\* pushTransform inserting the local polytope below the world-space one
pushTransform_atFront(transform) ==
    LET localToWorld == IF l2wStack = <<>> THEN TransformOf(transform, Identity)
                        ELSE TransformOf(transform, Back(l2wStack))
        worldToLocal == inverse(localToWorld)
        worldspace == polytopeStack[1]
        localspace == PolytopeTimesMat(worldspace, localToWorld)
    IN  /\ l2wStack' = Append(l2wStack, localToWorld)
        /\ w2lStack' = Append(w2lStack, worldToLocal)
        /\ polytopeStack' = <<localspace>> \o polytopeStack
        /\ last' = [NoCall EXCEPT !.op = "pushTransform", !.args = <<transform>>]
        /\ UNCHANGED <<intersections, nodePath, arrayStateStack, ctor, ub>>

\* pushTransform deriving the local polytope from the top of the stack
pushTransform_fromTop(transform) ==
    LET localToWorld == IF l2wStack = <<>> THEN TransformOf(transform, Identity)
                        ELSE TransformOf(transform, Back(l2wStack))
        worldToLocal == inverse(localToWorld)
        parent == Back(polytopeStack)
        localspace == PolytopeTimesMat(parent, localToWorld)
    IN  /\ l2wStack' = Append(l2wStack, localToWorld)
        /\ w2lStack' = Append(w2lStack, worldToLocal)
        /\ polytopeStack' = Append(polytopeStack, localspace)
        /\ last' = [NoCall EXCEPT !.op = "pushTransform", !.args = <<transform>>]
        /\ UNCHANGED <<intersections, nodePath, arrayStateStack, ctor, ub>>

pushTransform(transform) ==
    LET localToWorld == IF l2wStack = <<>> THEN TransformOf(transform, Identity)
                        ELSE TransformOf(transform, Back(l2wStack))
        worldToLocal == inverse(localToWorld)
        worldspace == polytopeStack[1]
        localspace == PolytopeTimesMat(worldspace, localToWorld)
    IN  /\ l2wStack' = Append(l2wStack, localToWorld)
        /\ w2lStack' = Append(w2lStack, worldToLocal)
        /\ polytopeStack' = Append(polytopeStack, localspace)
        /\ last' = [NoCall EXCEPT !.op = "pushTransform", !.args = <<transform>>]
        /\ UNCHANGED <<intersections, nodePath, arrayStateStack, ctor, ub>>

PushTransform ==
    \E transform \in Transforms :
        /\ ~ub
        /\ Len(l2wStack) < MaxDepth
        /\ pushTransform(transform)

\* pop_back() of an empty vector is undefined behaviour
popTransform ==
    /\ last' = [NoCall EXCEPT !.op = "popTransform",
                              !.args = <<Len(polytopeStack), Len(l2wStack), Len(w2lStack)>>]
    /\ IF polytopeStack # <<>> /\ l2wStack # <<>> /\ w2lStack # <<>>
       THEN /\ polytopeStack' = PopBack(polytopeStack)
            /\ l2wStack' = PopBack(l2wStack)
            /\ w2lStack' = PopBack(w2lStack)
            /\ ub' = ub
       ELSE /\ polytopeStack' = IF polytopeStack # <<>> THEN PopBack(polytopeStack)
                                ELSE <<>>
            /\ l2wStack' \in IF l2wStack # <<>> THEN {PopBack(l2wStack)} ELSE UBStacks
            /\ w2lStack' \in IF w2lStack # <<>> THEN {PopBack(w2lStack)} ELSE UBStacks
            /\ ub' = TRUE
    /\ UNCHANGED <<intersections, nodePath, arrayStateStack, ctor>>

PopTransform == ~ub /\ popTransform

\* the traversal's discipline: a pop only after the push it closes
PopMatched == ~ub /\ l2wStack # <<>> /\ popTransform

\* dsphere::valid()
SphereValid(bs) == ~RLt(bs.radius, RZero)

\* PolytopeIntersector::intersects: the return value
intersects(bs) == IF ~SphereValid(bs) THEN FALSE ELSE TRUE

Intersects ==
    \E bs \in Spheres :
        /\ ~ub
        /\ last' = [NoCall EXCEPT !.op = "intersects", !.args = <<bs>>,
                                  !.ret = intersects(bs)]
        /\ UNCHANGED <<polytopeStack, l2wStack, w2lStack, intersections, nodePath,
                       arrayStateStack, ctor, ub>>

\* intersectDraw and intersectDrawIndexed: the instances tested, the list
\* after the call and the return value
\* intersectDraw with the comparison of the sizes inverted
intersectDraw_sameSize(list, firstVertex, vertexCount, firstInstance, instanceCount) ==
    LET previous_size == Len(list)
        after == list
    IN  [tested |-> {}, list |-> after, ret |-> Len(after) = previous_size]

intersectDraw(list, firstVertex, vertexCount, firstInstance, instanceCount) ==
    LET previous_size == Len(list)
        after == list
    IN  [tested |-> {}, list |-> after, ret |-> Len(after) # previous_size]

intersectDrawIndexed(list, firstIndex, indexCount, firstInstance, instanceCount) ==
    LET previous_size == Len(list)
        after == list
    IN  [tested |-> {}, list |-> after, ret |-> Len(after) # previous_size]

IntersectDraw ==
    \E a \in DrawArgs :
        LET res == intersectDraw(intersections, a.first, a.count, a.firstInstance, a.instanceCount)
        IN  /\ ~ub
            /\ intersections' = res.list
            /\ last' = [NoCall EXCEPT !.op = "intersectDraw", !.args = <<a>>,
                                      !.ret = res.ret, !.tested = res.tested]
            /\ UNCHANGED <<polytopeStack, l2wStack, w2lStack, nodePath, arrayStateStack, ctor, ub>>

IntersectDrawIndexed ==
    \E a \in DrawArgs :
        LET res == intersectDrawIndexed(intersections, a.first, a.count, a.firstInstance, a.instanceCount)
        IN  /\ ~ub
            /\ intersections' = res.list
            /\ last' = [NoCall EXCEPT !.op = "intersectDrawIndexed", !.args = <<a>>,
                                      !.ret = res.ret, !.tested = res.tested]
            /\ UNCHANGED <<polytopeStack, l2wStack, w2lStack, nodePath, arrayStateStack, ctor, ub>>

\* TriangleIntersector<double>(intersector, start, end, vertices).intersect(i0, i1, i2)
TriangleIntersect ==
    \E seg \in Segments, tri \in Triangles :
        \E res \in {intersect(TriangleIntersector(seg[1], seg[2]), Vertices,
                               tri[1], tri[2], tri[3])} :
            /\ ~ub
            /\ Len(intersections) + Len(res.calls) <= MaxHits
            /\ intersections' =
                   IF res.calls = <<>> THEN intersections
                   ELSE add(intersections, res.calls[1].coord, res.calls[1].ratio,
                            res.calls[1].indexRatios, res.calls[1].instanceIndex)
            /\ last' = [NoCall EXCEPT !.op = "intersect", !.ret = res.ret, !.obs = res.obs]
            /\ UNCHANGED <<polytopeStack, l2wStack, w2lStack, nodePath, arrayStateStack, ctor, ub>>

(***************************************************************************)
(* Specifications.                                                          *)
(***************************************************************************)
\* every public operation, called in any order
Next ==
    \/ Add
    \/ PushTransform
    \/ PopTransform
    \/ Intersects
    \/ IntersectDraw
    \/ IntersectDrawIndexed

Spec == InitPolytope /\ [][Next]_vars

\* the stack operations as a traversal issues them: pops match pushes
NextMatched ==
    \/ Add
    \/ PushTransform
    \/ PopMatched

SpecMatched == Init /\ [][NextMatched]_vars

\* the triangle test, on an intersector that may already hold records
NextTriangle ==
    \/ Add
    \/ TriangleIntersect

SpecTriangle == InitPolytope /\ [][NextTriangle]_vars

(***************************************************************************)
(* Properties.                                                              *)
(***************************************************************************)
IsPrefix(a, b) == Len(a) <= Len(b) /\ SubSeq(b, 1, Len(a)) = a
DrawOps == {"intersectDraw", "intersectDrawIndexed"}
Topology == Back(arrayStateStack).topology

\* C1: with every pop matched by an earlier push, the local-to-world and
\* world-to-local stacks have equal length and the polytope stack is one longer.
C1_StackDepths ==
    /\ Len(l2wStack) = Len(w2lStack)
    /\ Len(polytopeStack) = Len(l2wStack) + 1

\* a pop that closed the inner of two open transforms
C1_Witness == last.op = "popTransform" /\ last.args = <<3, 2, 2>> /\ Len(l2wStack) = 1

\* C2: popTransform called with only the world-space polytope on the stack
\* leaves the three stacks as they were and has no undefined behaviour.
C2_PopGuarded ==
    [][(last'.op = "popTransform" /\ Len(polytopeStack) = 1 /\ l2wStack = <<>>)
          => /\ polytopeStack' = polytopeStack
             /\ l2wStack' = l2wStack
             /\ w2lStack' = w2lStack
             /\ ub' = FALSE]_vars

\* C3: the polytope at index 0 of the stack is the one the constructor seeded,
\* same planes in the same order, whatever pushes and matched pops were made.
C3_WorldSpaceKept ==
    /\ polytopeStack # <<>>
    /\ polytopeStack[1] = ctor.worldspace

\* all transforms closed again after a push
C3_Witness == last.op = "popTransform" /\ last.args = <<2, 1, 1>> /\ Len(polytopeStack) = 1

\* the sphere lies entirely on the negative side of one plane of the polytope
EntirelyOutside(bs, polytope) ==
    \E k \in 1..Len(polytope) :
        LET pl == polytope[k]
            n == <<pl[1], pl[2], pl[3]>>
            dist == RAdd(dot(n, bs.center), pl[4])
        IN  /\ RLt(dist, RZero)
            /\ RGt(RMul(dist, dist), RMul(RMul(bs.radius, bs.radius), length2(n)))

\* C4: intersects(sphere) is false for an invalid sphere and for a valid sphere
\* entirely on the negative side of a plane of the current polytope, else true.
C4_SphereRejected ==
    last.op = "intersects" =>
        LET bs == last.args[1]
        IN  last.ret <=> (SphereValid(bs) /\ ~EntirelyOutside(bs, Back(polytopeStack)))

\* C5: a draw-call test returns true exactly when it appended a record, and
\* returns false with the list unchanged when the topology is not a triangle
\* list or the count is below 3.
C5_DrawReturn ==
    [][last'.op \in DrawOps =>
          /\ IsPrefix(intersections, intersections')
          /\ last'.ret <=> (Len(intersections') > Len(intersections))
          /\ (Topology # TRIANGLE_LIST \/ last'.args[1].count < 3)
                => (~last'.ret /\ intersections' = intersections)]_vars

\* an indexed draw of two indices and a draw with a line-list topology
C5_Witness ==
    /\ last.op \in DrawOps
    /\ ~last.ret
    /\ \/ last.op = "intersectDrawIndexed" /\ last.args[1].count = 2
       \/ last.op = "intersectDraw" /\ Topology = LINE_LIST

\* C6: a draw-call test of a triangle list with a count of at least 3 tests the
\* instances firstInstance .. firstInstance+instanceCount-1 when instanceCount
\* is above 1, and firstInstance alone when instanceCount is 0 or 1.
C6_InstancesTested ==
    (last.op \in DrawOps /\ Topology = TRIANGLE_LIST /\ last.args[1].count >= 3) =>
        LET a == last.args[1]
        IN  last.tested = IF a.instanceCount > 1
                          THEN a.firstInstance .. (a.firstInstance + a.instanceCount - 1)
                          ELSE {a.firstInstance}

\* C7: the list of intersections only grows at its end: every operation leaves
\* the old list as a prefix of the new one, add appends exactly one record, and
\* pushTransform, popTransform and intersects leave the list as it was.
C7_AppendOnly ==
    [][/\ IsPrefix(intersections, intersections')
       /\ last'.op = "add" =>
             /\ Len(intersections') = Len(intersections) + 1
             /\ Back(intersections').instanceIndex = last'.args[1].instanceIndex
       /\ last'.op \in {"pushTransform", "popTransform", "intersects"} =>
             intersections' = intersections]_vars

\* a second record added behind a different one
C7_Witness ==
    /\ last.op = "add"
    /\ Len(intersections) = 2
    /\ intersections[1] # intersections[2]

FullViewport(vp, rc) ==
    /\ rc.xMin = vp.x
    /\ rc.xMax = vp.x + vp.width
    /\ rc.yMin = vp.y
    /\ rc.yMax = vp.y + vp.height

\* C8: the camera constructor, on a viewport of positive size and a rectangle
\* covering it, computes NDC bounds of exactly -1 and 1 on both axes; the y axis
\* is flipped: pixel yMax gives ndc_yMin, pixel yMin gives ndc_yMax.
C8_FullViewportNdc ==
    (ctor.kind = "camera" /\ ctor.viewport.width > 0 /\ ctor.viewport.height > 0) =>
        LET vp == ctor.viewport
            rc == ctor.rect
            ndc == ctor.ndc
        IN  /\ FullViewport(vp, rc) =>
                /\ ndc.ndc_xMin = R(-1) /\ ndc.ndc_xMax = R(1)
                /\ ndc.ndc_yMin = R(-1) /\ ndc.ndc_yMax = R(1)
            /\ rc.yMax = vp.y + vp.height => ndc.ndc_yMin = R(-1)
            /\ rc.yMin = vp.y => ndc.ndc_yMax = R(1)

\* a camera with a viewport away from the origin and the full rectangle
C8_Witness ==
    /\ ctor.kind = "camera"
    /\ ctor.viewport.width > 0 /\ ctor.viewport.height > 0
    /\ ctor.viewport.x # 0 /\ ctor.viewport.y # 0
    /\ FullViewport(ctor.viewport, ctor.rect)

C9_Derived ==
    /\ Len(polytopeStack) = Len(l2wStack) + 1
    /\ \A i \in 2..Len(polytopeStack) :
          /\ Len(polytopeStack[i]) = Len(polytopeStack[1])
          /\ \A k \in 1..Len(polytopeStack[1]) :
                polytopeStack[i][k] = PlaneTimesMat(polytopeStack[1][k], l2wStack[i - 1])

C9_Accumulated ==
    last'.op = "pushTransform" =>
        /\ Len(l2wStack') = Len(l2wStack) + 1
        /\ Back(l2wStack') =
               TransformOf(last'.args[1], IF l2wStack = <<>> THEN Identity ELSE Back(l2wStack))

\* C9: every polytope above index 0 is the world-space polytope with each plane
\* multiplied by the local-to-world matrix of its level, plane for plane, and
\* each push accumulates its transform onto the previous local-to-world top
\* (the identity when there is none).
C9_LocalFromWorld == []C9_Derived /\ [][C9_Accumulated]_vars

\* two nested transforms, the inner polytope not the transform of its parent
C9_Witness ==
    /\ last.op = "pushTransform"
    /\ Len(polytopeStack) = 3
    /\ polytopeStack[3] # PolytopeTimesMat(polytopeStack[2], l2wStack[2])

\* the conditions under which the triangle test rejects, on the locals
TriRejected(o) ==
    LET det == o[1]
        u == o[2]
        v == o[3]
        t == RDiv(o[4], o[1])
        len == o[5]
    IN  \/ ~GtEpsilon(det) /\ ~LtNegEpsilon(det)
        \/ /\ GtEpsilon(det)
           /\ RLt(u, RZero) \/ RLt(v, RZero) \/ RGt(RAdd(u, v), det)
        \/ /\ LtNegEpsilon(det)
           /\ RGt(u, RZero) \/ RGt(v, RZero) \/ RLt(RAdd(u, v), det)
        \/ /\ GtEpsilon(det) \/ LtNegEpsilon(det)
           /\ RLt(t, RZero) \/ RGt(t, len)

\* C10: TriangleIntersector::intersect returns false and appends nothing when
\* |det| <= 1e-10, when u or v is outside the triangle, or when t is outside
\* [0, length]; a record is appended (exactly one) only when it returns true.
C10_RejectAddsNothing ==
    [][last'.op = "intersect" =>
          /\ TriRejected(last'.obs) => ~last'.ret
          /\ ~last'.ret => intersections' = intersections
          /\ last'.ret => /\ Len(intersections') = Len(intersections) + 1
                          /\ IsPrefix(intersections, intersections')]_vars

\* a segment that reaches the triangle's plane inside the triangle but beyond
\* its end point
C10_Witness ==
    /\ last.op = "intersect"
    /\ ~last.ret
    /\ GtEpsilon(last.obs[1])
    /\ RGt(RDiv(last.obs[4], last.obs[1]), last.obs[5])
    /\ ~RLt(last.obs[2], RZero) /\ ~RLt(last.obs[3], RZero)
    /\ ~RGt(RAdd(last.obs[2], last.obs[3]), last.obs[1])

====
